---------------------------- MODULE Spec2Model ----------------------------
(***************************************************************************)
(* Model of scripts/lookup_gen.py: the CORDIC arctan table generator, the  *)
(* Qm.n fixed-point encoder format_qmn and the report / Verilog emitter    *)
(* main.                                                                   *)
(*                                                                         *)
(* Numbers.  A Python float is modelled as a dyadic rational: an integer   *)
(* numerator over 2^FracBits.  Multiplying a float by 1 << n is exact in   *)
(* binary floating point, so angle * (1 << n) is the numerator shifted     *)
(* left by n.  Python ints are unbounded; the values the program computes  *)
(* (masks up to 2^32 - 1, scaled angles up to 2^40) exceed the 32-bit      *)
(* integers of the model checker, so a Python int is held as two limbs     *)
(* [hi, lo] with value hi * 2^16 + lo and 0 <= lo < 2^16.                  *)
(***************************************************************************)
EXTENDS Integers, Sequences, FiniteSets, TLC

\* ------------------------------------------------------------------ bounds
\* Fractional bits of the dyadic rationals that stand for floats.
FracBits == 8
\* Direct calls of format_qmn take angle lists of at most MaxLen entries ...
MaxLen == 1
\* ... whose entries are the multiples of 1/4 in [-AngleMax/4, AngleMax/4].
AngleMax == 5
\* The widths m and n range over 0 .. MaxWidth.
MaxWidth == 33
\* main is run with iteration counts 0 .. MaxIter.
MaxIter == 2

\* ------------------------------------------------------- program constants
WordBits == 32
HexWidth == 8

\* Python's None where an int is expected (an absent --m or --n, a parameter
\* not yet bound, the exit status of a run that has not ended): no int of the
\* model is negative in these places.
None == 0 - 1

\* ------------------------------------------------------------- Python ints
LimbBase == 2^16

Wide(x) == [hi |-> x \div LimbBase, lo |-> x % LimbBase]

WAdd(a, b) ==
    LET s == a.lo + b.lo
    IN  [hi |-> a.hi + b.hi + (s \div LimbBase), lo |-> s % LimbBase]

WNeg(a) ==
    IF a.lo = 0 THEN [hi |-> 0 - a.hi, lo |-> 0]
                ELSE [hi |-> 0 - a.hi - 1, lo |-> LimbBase - a.lo]

WSub(a, b) == WAdd(a, WNeg(b))

WLess(a, b) == a.hi < b.hi \/ (a.hi = b.hi /\ a.lo < b.lo)

\* a << k and a >> k (floor, as Python's >> on ints), a limb's worth of bits
\* at a time so that no intermediate product leaves the limbs.
ShlSmall(a, k) ==
    LET p == a.lo * 2^k
    IN  [hi |-> a.hi * 2^k + (p \div LimbBase), lo |-> p % LimbBase]

RECURSIVE WShl(_, _)
WShl(a, k) == IF k <= 15 THEN ShlSmall(a, k) ELSE WShl(ShlSmall(a, 15), k - 15)

ShrSmall(a, k) ==
    [hi |-> a.hi \div 2^k,
     lo |-> (a.lo \div 2^k) + (a.hi % 2^k) * (LimbBase \div 2^k)]

RECURSIVE WShr(_, _)
WShr(a, k) == IF k <= 16 THEN ShrSmall(a, k) ELSE WShr(ShrSmall(a, 16), k - 16)

\* x & y on one limb, y >= 0; x is read in two's complement when negative.
RECURSIVE BitAnd(_, _)
BitAnd(x, y) ==
    IF y = 0 THEN 0
    ELSE (x % 2) * (y % 2) + 2 * BitAnd(x \div 2, y \div 2)

\* a & b for b >= 0
WAnd(a, b) == [hi |-> BitAnd(a.hi, b.hi), lo |-> BitAnd(a.lo, b.lo)]

WZero == Wide(0)
WOne == Wide(1)

\* ----------------------------------------------------------------- floats
\* angle * (1 << n): exact, in units of 2^-FracBits.
Scale(angle, n) == WShl(Wide(angle), n)

\* round(x) for the float x = p / 2^FracBits: nearest integer, ties to even.
PyRoundTrunc(p) ==
    LET q == WShr(p, FracBits)
    IN  IF WLess(p, WZero) /\ WSub(p, WShl(q, FracBits)) # WZero
        THEN WAdd(q, WOne) ELSE q

PyRoundHalfUp(p) == WShr(WAdd(p, Wide(2^(FracBits - 1))), FracBits)

PyRound(p) ==
    LET q    == WShr(p, FracBits)
        r    == WSub(p, WShl(q, FracBits)).lo
        half == 2^(FracBits - 1)
    IN  IF r < half THEN q
        ELSE IF r > half THEN WAdd(q, WOne)
        ELSE IF q.lo % 2 = 0 THEN q ELSE WAdd(q, WOne)

\* ------------------------------------------------------------- hex strings
HexChars == <<"0", "1", "2", "3", "4", "5", "6", "7",
              "8", "9", "A", "B", "C", "D", "E", "F">>

\* The upper-case hex digits of w >= 0, most significant first, no padding.
RECURSIVE HexDigits(_)
HexDigits(w) ==
    IF w = WZero THEN <<>>
    ELSE Append(HexDigits(WShr(w, 4)), HexChars[(w.lo % 16) + 1])

RECURSIVE ZeroPad(_, _)
ZeroPad(s, width) == IF Len(s) >= width THEN s ELSE ZeroPad(<<"0">> \o s, width)

\* f"0x{word:08X}"
FormatHex(word) == <<"0", "x">> \o ZeroPad(HexDigits(word), HexWidth)


\* ------------------------------------------------------------------- state
VARIABLES
    pc,          \* position of the run
    caller,      \* "main": the script is run; "direct": format_qmn is called
    args,        \* main: the parsed command line
    angles,      \* the angle list (numerators over 2^FracBits)
    K,           \* main: the gain constant (numerator over 2^FracBits)
    m, n,        \* format_qmn: its parameters
    loc,         \* format_qmn: its local variables (idx counts the angles
                 \* done; the per-angle locals are those of the last one)
    hex_values,  \* the list format_qmn returned
    stdout,      \* lines printed
    stderr,      \* messages of the interpreter on a fatal exit
    exitStatus,  \* exit status of the run, None while it runs
    file         \* rtl/lookup.v and its directory

vars == <<pc, caller, args, angles, K, m, n, loc, hex_values,
          stdout, stderr, exitStatus, file>>

\* ------------------------------------------------------ generate_cordic_lut
\* math.atan(2.0 ** -i) and the running product K, to 16 fractional bits.
AtanRef == <<51472, 30386, 16055, 8150, 4091, 2047, 1024, 512>>
GainRef == <<65536, 46341, 41449, 40211, 39901, 39823, 39803, 39799, 39797>>

\* A 16-bit reference value to the nearest multiple of 2^-FracBits.
Quantize(ref) ==
    LET d == 2^(16 - FracBits)
        q == ref \div d
        r == ref % d
    IN  IF 2 * r < d THEN q
        ELSE IF 2 * r > d THEN q + 1
        ELSE IF q % 2 = 0 THEN q ELSE q + 1

GenerateCordicLut(n_iter) ==
    [angles |-> [i \in 1..n_iter |-> Quantize(AtanRef[i])],
     K      |-> Quantize(GainRef[n_iter + 1])]

\* --------------------------------------------------------------- format_qmn
TooWideOffByOne(total_bits) == total_bits > WordBits + 1

TooWideNever(total_bits) == FALSE

\* if total_bits > 32
TooWide(total_bits) == total_bits > WordBits

ClampNone(scaled, max_int, half_range) == scaled

ClampWrap(scaled, max_int, half_range) ==
    IF WLess(max_int, scaled) THEN half_range
    ELSE IF WLess(scaled, WNeg(half_range)) THEN WNeg(half_range)
    ELSE scaled

\* the two clamping ifs
Clamp(scaled, max_int, half_range) ==
    IF WLess(max_int, scaled) THEN max_int
    ELSE IF WLess(scaled, WNeg(half_range)) THEN WNeg(half_range)
    ELSE scaled

\* twos = scaled & mask
TwosComplement(scaled, mask) == WAnd(scaled, mask)

LeftJustifyNone(twos, shift_left) == twos

\* word = twos << shift_left
LeftJustify(twos, shift_left) == WShl(twos, shift_left)

NoFrame == [bound |-> FALSE]

\* lines 63-74: the width check and the constants of the format
FormatEnter ==
    /\ pc = "fmt_entry"
    /\ LET total_bits == 1 + m + n
       IN  IF TooWide(total_bits)
           THEN /\ pc' = "exited"
                /\ stderr' = Append(stderr, [kind |-> "bits_error", m |-> m,
                                             n |-> n, total |-> total_bits])
                /\ exitStatus' = 1
                /\ UNCHANGED loc
           ELSE /\ pc' = "fmt_loop"
                /\ loc' = [bound      |-> TRUE,
                           total_bits |-> total_bits,
                           shift_left |-> WordBits - total_bits,
                           max_int    |-> WSub(WShl(WOne, m + n), WOne),
                           half_range |-> WShl(WOne, m + n),
                           mask       |-> WSub(WShl(WOne, total_bits), WOne),
                           idx        |-> 0,
                           angle      |-> 0,
                           rounded    |-> WZero,
                           scaled     |-> WZero,
                           twos       |-> WZero,
                           word       |-> WZero,
                           result     |-> <<>>]
                /\ UNCHANGED <<stderr, exitStatus>>
    /\ UNCHANGED <<caller, args, angles, K, m, n, hex_values, stdout, file>>

\* lines 76-88: one iteration of the loop over the angles
FormatStep ==
    /\ pc = "fmt_loop"
    /\ loc.idx < Len(angles)
    /\ LET angle   == angles[loc.idx + 1]
           rounded == PyRound(Scale(angle, n))
           scaled  == Clamp(rounded, loc.max_int, loc.half_range)
           twos    == TwosComplement(scaled, loc.mask)
           word    == LeftJustify(twos, loc.shift_left)
       IN  loc' = [loc EXCEPT !.idx = @ + 1,
                              !.angle = angle,
                              !.rounded = rounded,
                              !.scaled = scaled,
                              !.twos = twos,
                              !.word = word,
                              !.result = Append(@, FormatHex(word))]
    /\ UNCHANGED <<pc, caller, args, angles, K, m, n, hex_values,
                   stdout, stderr, exitStatus, file>>

\* line 90: return result
FormatReturn ==
    /\ pc = "fmt_loop"
    /\ loc.idx = Len(angles)
    /\ hex_values' = loc.result
    /\ loc' = NoFrame
    /\ pc' = IF caller = "main" THEN "main_hex" ELSE "returned"
    /\ UNCHANGED <<caller, args, angles, K, m, n, stdout, stderr,
                   exitStatus, file>>

\* ------------------------------------------- format_qmn called on its own
AngleGrid == {q * 2^(FracBits - 2) : q \in (0 - AngleMax)..AngleMax}

AngleLists == UNION {[1..k -> AngleGrid] : k \in 0..MaxLen}

NoArgs == [niter |-> 0, m |-> None, n |-> None, genverilog |-> FALSE]

NoFile == [dir |-> TRUE, exists |-> FALSE, opened |-> FALSE, text |-> <<>>]

InitEnc ==
    /\ pc = "fmt_entry"
    /\ caller = "direct"
    /\ args = NoArgs
    /\ angles \in AngleLists
    /\ K = 0
    /\ m \in 0..MaxWidth
    /\ n \in 0..MaxWidth
    /\ m + n <= MaxWidth
    /\ loc = NoFrame
    /\ hex_values = <<>>
    /\ stdout = <<>>
    /\ stderr = <<>>
    /\ exitStatus = None
    /\ file = NoFile

NextEnc == FormatEnter \/ FormatStep \/ FormatReturn

SpecEnc == InitEnc /\ [][NextEnc]_vars

\* --------------------------------------------------------------------- main
Absent(x) == x = None

\* The module text written to rtl/lookup.v (lines 139-168): its parameters,
\* the bounds of the declared array lookup_table[0:I] with I bound to
\* paramI, the width of the array's elements and one reset assignment
\* lookup_table[i] <= 32'h<digits> per encoded word.
VerilogModule(niter, mm, nn, hexes) ==
    [kind      |-> "module",
     name      |-> "arctan_lookup",
     paramN    |-> 1 + mm + nn,
     paramI    |-> niter,
     arrayLo   |-> 0,
     arrayHi   |-> niter,
     elemBits  |-> 1 + mm + nn,
     reset     |-> [i \in 1..Len(hexes) |->
                      [index   |-> i - 1,
                       size    |-> WordBits,
                       digits  |-> SubSeq(hexes[i], 3, Len(hexes[i]))]]]

\* The value of the sized literal 32'h<digits>.
HexDigitValue(c) == CHOOSE d \in 0..15 : HexChars[d + 1] = c

RECURSIVE HexValue(_)
HexValue(digits) ==
    IF digits = <<>> THEN WZero
    ELSE WAdd(WShl(HexValue(SubSeq(digits, 1, Len(digits) - 1)), 4),
              Wide(HexDigitValue(digits[Len(digits)])))

\* What reg [N-1:0] lookup_table[i] holds after reset: the assignment
\* lookup_table[i] <= 32'h<digits> keeps the low N bits of the literal.
RegisterAfterReset(mod, i) ==
    WAnd(HexValue(mod.reset[i + 1].digits),
         WSub(WShl(WOne, mod.elemBits), WOne))

\* The indices of the declared array lookup_table[arrayLo:arrayHi].
DeclaredIndices(mod) == mod.arrayLo .. mod.arrayHi

\* lines 121-125: parse the arguments, build the table, print the heading
MainGenerate ==
    /\ pc = "main_start"
    /\ LET lut == GenerateCordicLut(args.niter)
       IN  /\ angles' = lut.angles
           /\ K' = lut.K
    /\ stdout' = Append(stdout, [kind |-> "lut_header"])
    /\ pc' = "main_branch"
    /\ UNCHANGED <<caller, args, m, n, loc, hex_values, stderr, exitStatus, file>>

\* lines 126-128 and 134: no fixed-point format, the raw radian table
MainPrintRaw ==
    /\ pc = "main_branch"
    /\ Absent(args.m) \/ Absent(args.n)
    /\ stdout' = stdout
                 \o [i \in 1..Len(angles) |->
                       [kind |-> "raw", i |-> i - 1, angle |-> angles[i]]]
                 \o <<[kind |-> "gain", K |-> K]>>
    /\ pc' = "main_verilog"
    /\ UNCHANGED <<caller, args, angles, K, m, n, loc, hex_values, stderr,
                   exitStatus, file>>

\* line 130: hex_values = format_qmn(angles, args.m, args.n)
MainCallFormat ==
    /\ pc = "main_branch"
    /\ ~Absent(args.m) /\ ~Absent(args.n)
    /\ m' = args.m
    /\ n' = args.n
    /\ pc' = "fmt_entry"
    /\ UNCHANGED <<caller, args, angles, K, loc, hex_values, stdout, stderr,
                   exitStatus, file>>

\* lines 131-134: the encoded table and the gain
MainPrintHex ==
    /\ pc = "main_hex"
    /\ stdout' = stdout
                 \o [i \in 1..Len(hex_values) |->
                       [kind |-> "hex", i |-> i - 1, text |-> hex_values[i]]]
                 \o <<[kind |-> "gain", K |-> K]>>
    /\ pc' = "main_verilog"
    /\ UNCHANGED <<caller, args, angles, K, m, n, loc, hex_values, stderr,
                   exitStatus, file>>

\* line 136, flag unset: main returns
MainFinish ==
    /\ pc = "main_verilog"
    /\ ~args.genverilog
    /\ pc' = "done"
    /\ exitStatus' = 0
    /\ UNCHANGED <<caller, args, angles, K, m, n, loc, hex_values, stdout,
                   stderr, file>>

\* lines 136-138, flag set: print the notice and open rtl/lookup.v for writing
VerilogOpen ==
    /\ pc = "main_verilog"
    /\ args.genverilog
    /\ stdout' = Append(stdout, [kind |-> "verilog_notice"])
    /\ IF ~file.dir
       THEN /\ pc' = "raised"
            /\ stderr' = Append(stderr, [kind |-> "FileNotFoundError"])
            /\ exitStatus' = 1
            /\ UNCHANGED file
       ELSE /\ pc' = "verilog_write"
            /\ file' = [file EXCEPT !.exists = TRUE, !.opened = TRUE,
                                    !.text = <<>>]
            /\ UNCHANGED <<stderr, exitStatus>>
    /\ UNCHANGED <<caller, args, angles, K, m, n, loc, hex_values>>

\* lines 139-168: write the module; 1+args.m+args.n raises TypeError when a
\* width is absent, and the with statement closes the truncated file
VerilogWrite ==
    /\ pc = "verilog_write"
    /\ IF Absent(args.m) \/ Absent(args.n)
       THEN /\ pc' = "raised"
            /\ stderr' = Append(stderr, [kind |-> "TypeError"])
            /\ exitStatus' = 1
            /\ UNCHANGED file
       ELSE /\ pc' = "done"
            /\ file' = [file EXCEPT !.text =
                           <<VerilogModule(args.niter, args.m, args.n,
                                           hex_values)>>]
            /\ exitStatus' = 0
            /\ UNCHANGED stderr
    /\ UNCHANGED <<caller, args, angles, K, m, n, loc, hex_values, stdout>>

Widths == {None} \cup 0..MaxWidth

InitialFiles ==
    { [dir |-> FALSE, exists |-> FALSE, opened |-> FALSE, text |-> <<>>],
      NoFile,
      [dir |-> TRUE, exists |-> TRUE, opened |-> FALSE,
       text |-> <<[kind |-> "previous"]>>] }

Init ==
    /\ pc = "main_start"
    /\ caller = "main"
    /\ args \in {a \in [niter : 0..MaxIter, m : Widths, n : Widths,
                          genverilog : BOOLEAN] :
                     Absent(a.m) \/ Absent(a.n) \/ a.m + a.n <= MaxWidth}
    /\ angles = <<>>
    /\ K = 0
    /\ m = None
    /\ n = None
    /\ loc = NoFrame
    /\ hex_values = <<>>
    /\ stdout = <<>>
    /\ stderr = <<>>
    /\ exitStatus = None
    /\ file \in InitialFiles

Next ==
    \/ MainGenerate
    \/ MainPrintRaw
    \/ MainCallFormat
    \/ FormatEnter
    \/ FormatStep
    \/ FormatReturn
    \/ MainPrintHex
    \/ MainFinish
    \/ VerilogOpen
    \/ VerilogWrite

Spec == Init /\ [][Next]_vars

\* ------------------------------------------------------------ properties
WLe(a, b) == ~WLess(b, a)

WAbs(a) == IF WLess(a, WZero) THEN WNeg(a) ELSE a

\* 2^k as a Python int
Pow2(k) == WShl(WOne, k)

\* The t-bit two's-complement encoding of v, -2^(t-1) <= v < 2^(t-1).
TwosEnc(v, t) == IF WLess(v, WZero) THEN WAdd(v, Pow2(t)) ELSE v

\* An iteration of format_qmn's loop has run: loc holds its locals.
AfterStep == pc = "fmt_loop" /\ loc.idx > 0

\* The string appended by that iteration.
LastHex == loc.result[loc.idx]

\* C1: format_qmn fails with the configuration error if and only if
\* 1 + m + n > 32; otherwise it returns one word per angle.
C1_RejectIffTooWide ==
    /\ pc = "exited" =>
          /\ 1 + m + n > 32
          /\ exitStatus = 1
          /\ stderr = <<[kind |-> "bits_error", m |-> m, n |-> n,
                         total |-> 1 + m + n]>>
          /\ hex_values = <<>>
    /\ pc \in {"fmt_loop", "returned"} => 1 + m + n <= 32
    /\ pc = "returned" =>
          /\ Len(hex_values) = Len(angles)
          /\ exitStatus = None

C1_Witness == pc = "exited" /\ 1 + m + n = 33 /\ Len(angles) > 0

C1_WitnessAccept == pc = "returned" /\ 1 + m + n = 32 /\ Len(hex_values) > 0

\* A run of main given both widths, with 1 + m + n > 32.
TooWideRun ==
    /\ caller = "main"
    /\ ~Absent(args.m) /\ ~Absent(args.n)
    /\ 1 + args.m + args.n > 32

\* C2: in a run of main with 1 + m + n > 32 the error is raised before any
\* encoding work: the run ends at the exit with status 1 and the message
\* stating the sum, and no table line, no gain line and no Verilog file
\* has been produced (the heading printed by line 125 is on stdout).
C2_FailFast ==
    TooWideRun =>
        /\ pc \in {"main_start", "main_branch", "fmt_entry", "exited"}
        /\ \A k \in 1..Len(stdout) :
              stdout[k].kind \notin {"raw", "hex", "gain", "verilog_notice"}
        /\ ~file.opened
        /\ file \in InitialFiles
        /\ ~loc.bound
        /\ hex_values = <<>>
        /\ pc = "exited" =>
              /\ exitStatus = 1
              /\ stderr = <<[kind |-> "bits_error", m |-> args.m,
                             n |-> args.n,
                             total |-> 1 + args.m + args.n]>>
        /\ pc # "exited" => exitStatus = None /\ stderr = <<>>

C2_Witness ==
    /\ TooWideRun
    /\ pc = "exited"
    /\ stdout = <<[kind |-> "lut_header"]>>
    /\ args.genverilog
    /\ args.niter > 0
    /\ file.exists

\* C3: saturating clamp.  The integer that is encoded lies in
\* [-2^(m+n), 2^(m+n) - 1]; it is 2^(m+n) - 1 when the rounded value is
\* above that bound, -2^(m+n) when it is below, the rounded value
\* otherwise; an over-range positive value never gets a negative pattern.
C3_SaturatingClamp ==
    AfterStep =>
        LET max_pos == WSub(Pow2(m + n), WOne)
            min_neg == WNeg(Pow2(m + n))
        IN  /\ WLe(min_neg, loc.scaled) /\ WLe(loc.scaled, max_pos)
            /\ WLess(max_pos, loc.rounded) => loc.scaled = max_pos
            /\ WLess(loc.rounded, min_neg) => loc.scaled = min_neg
            /\ (WLe(min_neg, loc.rounded) /\ WLe(loc.rounded, max_pos))
                  => loc.scaled = loc.rounded
            /\ WLess(max_pos, loc.rounded) =>
                  /\ WShr(loc.word, 31) = WZero
                  /\ WShr(loc.word, 32 - (1 + m + n)) = max_pos

\* m = 0, n = 1 on 0.75: 1.5 rounds to 2 = max_pos + 1 and is encoded as 1.
C3_Witness ==
    /\ AfterStep
    /\ m = 0 /\ n = 1
    /\ loc.angle = 3 * 2^(FracBits - 2)
    /\ loc.rounded = Wide(2)
    /\ loc.scaled = WOne

C3_WitnessLow ==
    /\ AfterStep
    /\ WLess(loc.rounded, WNeg(Pow2(m + n)))
    /\ loc.scaled = WNeg(Pow2(m + n))

\* C4: the word is in [0, 2^32), its low 32 - (1+m+n) bits are zero and its
\* top 1+m+n bits are the two's-complement encoding of the clamped value;
\* the string appended is "0x" and the word's 8 hex digits.
C4_LeftJustified ==
    AfterStep =>
        LET pad == 32 - (1 + m + n)
        IN  /\ WLe(WZero, loc.word) /\ WLess(loc.word, Pow2(32))
            /\ WShl(WShr(loc.word, pad), pad) = loc.word
            /\ WShr(loc.word, pad) = TwosEnc(loc.scaled, 1 + m + n)
            /\ Len(LastHex) = 10
            /\ SubSeq(LastHex, 1, 2) = <<"0", "x">>
            /\ HexValue(SubSeq(LastHex, 3, 10)) = loc.word

\* no padding (1+m+n = 32) and a negative value
C4_Witness ==
    /\ AfterStep
    /\ 1 + m + n = 32
    /\ WLess(loc.scaled, WZero)
    /\ loc.word.lo # 0

C4_WitnessPadded ==
    /\ AfterStep
    /\ m = 0 /\ n = 0
    /\ loc.scaled # WZero

\* C5: bit 31 of the word is 1 exactly when the clamped value is negative.
C5_SignBit ==
    AfterStep =>
        ((WShr(loc.word, 31).lo % 2 = 1) <=> WLess(loc.scaled, WZero))

C5_Witness ==
    /\ AfterStep
    /\ WLess(loc.scaled, WZero)
    /\ 1 + m + n < 32
    /\ m > 0 /\ n > 0
    /\ WShr(loc.word, 31) = WOne

\* The word written as text, read back: arithmetic right shift by
\* 32 - total_bits with sign extension.
Decoded ==
    LET total == 1 + m + n
        top   == WShr(HexValue(SubSeq(LastHex, 3, Len(LastHex))), 32 - total)
    IN  IF WLe(Pow2(total - 1), top) THEN WSub(top, Pow2(total)) ELSE top

\* decoded / 2^n - angle, in units of 2^-(n + FracBits)
RoundTripError == WSub(WShl(Decoded, FracBits), WShl(Wide(loc.angle), n))

\* C6: for an entry that was not clamped, the decoded word divided by 2^n
\* is within 2^-(n+1) of the angle.
C6_RoundTrip ==
    (AfterStep /\ loc.scaled = loc.rounded) =>
        WLe(WShl(WAbs(RoundTripError), 1), Pow2(FracBits))

\* an entry that was not clamped and whose error is exactly half a step
C6_Witness ==
    /\ AfterStep
    /\ loc.scaled = loc.rounded
    /\ loc.angle < 0
    /\ WShl(WAbs(RoundTripError), 1) = Pow2(FracBits)

\* rounded - angle * 2^n, in units of 2^-FracBits
RoundingError == WSub(WShl(loc.rounded, FracBits), WShl(Wide(loc.angle), n))

\* C9: the value before clamping is the integer nearest to angle * 2^n,
\* an exact half going to the even neighbour.
C9_RoundHalfEven ==
    AfterStep =>
        /\ WLe(WShl(WAbs(RoundingError), 1), Pow2(FracBits))
        /\ WShl(WAbs(RoundingError), 1) = Pow2(FracBits)
              => loc.rounded.lo % 2 = 0

\* -0.75 at n = 1: -1.5 goes to -2
C9_Witness ==
    /\ AfterStep
    /\ n = 1
    /\ loc.angle = 0 - 3 * 2^(FracBits - 2)
    /\ loc.rounded = Wide(0 - 2)

\* The run wrote the Verilog module.
ModuleWritten == pc = "done" /\ args.genverilog

WrittenModule == file.text[1]

\* C7: the Verilog file is touched only when the flag is set and both m
\* and n were supplied; in every other run rtl/lookup.v is neither created
\* nor opened nor modified.
C7_FileOnlyWithFormat ==
    (caller = "main"
       /\ (~args.genverilog \/ Absent(args.m) \/ Absent(args.n)))
    => (~file.opened /\ file \in InitialFiles)

\* C8: the declared array lookup_table has exactly the indices 0 .. I-1,
\* and the reset block assigns each of them once, entry i getting word i.
C8_DeclaredEqualsReset ==
    (ModuleWritten /\ args.niter >= 1) =>
        LET mod == WrittenModule
        IN  /\ mod.paramI = args.niter
            /\ DeclaredIndices(mod) = 0 .. (mod.paramI - 1)
            /\ Len(mod.reset) = Len(hex_values)
            /\ \A i \in 1..Len(mod.reset) :
                  /\ mod.reset[i].index = i - 1
                  /\ <<"0", "x">> \o mod.reset[i].digits = hex_values[i]
            /\ DeclaredIndices(mod)
                  = {mod.reset[i].index : i \in 1..Len(mod.reset)}

\* The clamped scaled value of table entry i (from 0), as format_qmn
\* computes it.
ClampedEntry(i) ==
    Clamp(PyRound(Scale(angles[i + 1], args.n)),
          WSub(Pow2(args.m + args.n), WOne), Pow2(args.m + args.n))

\* C10: after reset the N-bit register lookup_table[i] holds the N-bit
\* two's-complement encoding of the clamped scaled angle i, N = 1+m+n.
C10_RegisterHoldsPayload ==
    ModuleWritten =>
        \A i \in 0 .. (Len(WrittenModule.reset) - 1) :
            RegisterAfterReset(WrittenModule, i)
                = TwosEnc(ClampedEntry(i), 1 + args.m + args.n)

=============================================================================
